---------------------------- MODULE Spec2Model ----------------------------
(***************************************************************************)
(* Model of the shusteri-automation consolidation and enrichment pipeline: *)
(* DataProcessor / ShipmentProcessor (src/src/processor.py,                *)
(* src/src/shipment_processor.py), the three document generators           *)
(* (src/src/generators/*.py), KMLoader (src/src/km_loader.py) and the      *)
(* orchestration in src/run.py.                                            *)
(*                                                                         *)
(* Conventions.                                                            *)
(*  - A Decimal is an integer count of 1/10000 units (0.125 is 1250), so   *)
(*    round(x, 3) rounds to a multiple of 10 and round(x, 2) to a multiple *)
(*    of 100, half-to-even as Decimal.__round__ does.                      *)
(*  - A str is a sequence of characters, each written as a string.  A      *)
(*    Cyrillic letter is written "~" followed by its transliteration       *)
(*    ("~d" is U+0434, "~D" is U+0414, "~q" the soft sign).                *)
(*  - An Optional value is <<>> (None / NaN) or <<v>>.                     *)
(***************************************************************************)
EXTENDS Integers, Sequences, FiniteSets, TLC

VARIABLES
    mode,            \* run.py select_processing_mode: "container" | "shipment"
    products,        \* List[ProductLine] returned by InputFileParser.parse
    shipment_file,   \* rows of the shipment spreadsheet (ShipmentParser.df)
    shipment_lines,  \* List[ShipmentLine] returned by ShipmentParser.parse
    output_lines,    \* List[OutputLine] of the run
    km_file,         \* the reference dataset handed to KMLoader (<<>>: none)
    km_index,        \* KMLoader._index
    km_state,        \* "none" | "loaded" | "failed"
    km_query,        \* the last get_km_codes call and its result
    enriched_count,  \* first component of enrich_with_km_codes' return value
    invoice,         \* what InvoiceGenerator.generate wrote
    specification,   \* what SpecificationGenerator.generate wrote
    packing_list,    \* what PackingListGenerator.generate wrote
    pc               \* position of ShusteriAutomation.process

vars == << mode, products, shipment_file, shipment_lines, output_lines,
           km_file, km_index, km_state, km_query, enriched_count,
           invoice, specification, packing_list, pc >>

-----------------------------------------------------------------------------
(* Bounds of the model *)

MaxRecords == 2

MaxQty == 2

MaxBoxes == 2

MaxKmRows == 2

-----------------------------------------------------------------------------
(* Generic helpers *)

None == << >>

Some(v) == << v >>

IsNone(o) == o = << >>

RECURSIVE SumOver(_, _)
SumOver(f, S) ==
    IF S = {} THEN 0
    ELSE LET x == CHOOSE y \in S : TRUE
         IN  f[x] + SumOver(f, S \ {x})

SetMin(S) == CHOOSE x \in S : \A y \in S : x <= y

SetMax(S) == CHOOSE x \in S : \A y \in S : x >= y

\* Python's `needle in haystack` for str: a contiguous occurrence.
StrContains(haystack, needle) ==
    \E i \in 0..(Len(haystack) - Len(needle)) :
        \A j \in 1..Len(needle) : haystack[i + j] = needle[j]

DigitChar == << "0", "1", "2", "3", "4", "5", "6", "7", "8", "9" >>

\* str(n) / f"{n}" of a non-negative int below 100.
IntStr(n) ==
    IF n < 10 THEN << DigitChar[n + 1] >>
    ELSE << DigitChar[(n \div 10) + 1], DigitChar[(n % 10) + 1] >>

\* A plausible slip: a tie rounded up (ROUND_HALF_UP).
RoundHalfUp(num, den, step) ==
    LET unit == den * step
        q    == num \div unit
        r    == num - q * unit
    IN  IF 2 * r < unit THEN q * step ELSE (q + 1) * step

\* round(Decimal(num)/den, ndigits) as a count of 1/10000: the multiple of
\* `step` nearest to num/den, a tie going to the even multiple
\* (ROUND_HALF_EVEN).  num >= 0, den > 0.
RoundHalfEven(num, den, step) ==
    LET unit == den * step
        q    == num \div unit
        r    == num - q * unit
    IN  IF 2 * r < unit THEN q * step
        ELSE IF 2 * r > unit THEN (q + 1) * step
        ELSE IF q % 2 = 0 THEN q * step
        ELSE (q + 1) * step

Round3(num, den) == RoundHalfEven(num, den, 10)

Round2(num, den) == RoundHalfEven(num, den, 100)

-----------------------------------------------------------------------------
(* models.py: ProductLine, ShipmentLine *)

Le24Sizes == {35, 36, 37}

Gt24Sizes == {38, 39, 40, 41, 42}

\* A plausible slip: size 42 left out of the total.
total_pairs_without_42(product) ==
    SumOver(product.qty_by_size, (DOMAIN product.qty_by_size) \ { 42 })

total_pairs(product) ==
    SumOver(product.qty_by_size, DOMAIN product.qty_by_size)

pairs_le24(product) ==
    SumOver(product.qty_by_size, (DOMAIN product.qty_by_size) \cap Le24Sizes)

\* A plausible slip: the upper band taken as 38..41, as KMLoader does.
pairs_gt24_without_42(product) ==
    SumOver(product.qty_by_size,
            (DOMAIN product.qty_by_size) \cap { 38, 39, 40, 41 })

pairs_gt24(product) ==
    SumOver(product.qty_by_size, (DOMAIN product.qty_by_size) \cap Gt24Sizes)

\* "длина стельки до 24см"
InsoleLe24 == << "~d","~l","~i","~n","~a"," ","~s","~t","~e","~l","~q","~k","~i",
                 " ","~d","~o"," ","2","4","~s","~m" >>

\* "длина стельки более 24см"
InsoleGt24 == << "~d","~l","~i","~n","~a"," ","~s","~t","~e","~l","~q","~k","~i",
                 " ","~b","~o","~l","~e","~e"," ","2","4","~s","~m" >>

\* "все размеры"
InsoleAll == << "~v","~s","~e"," ","~r","~a","~z","~m","~e","~r","~y" >>

\* "до 24см"
Do24 == << "~d","~o"," ","2","4","~s","~m" >>

\* "более 24см"
Bolee24 == << "~b","~o","~l","~e","~e"," ","2","4","~s","~m" >>

ShipmentLine_total_net_weight(line) ==
    line.net_weight_per_unit * line.halfpairs_loaded

ShipmentLine_total_amount(line) == line.price * line.halfpairs_loaded

\* A plausible slip: the label chosen by the size of the row.
ShipmentLine_insole_category_by_size(line) ==
    IF line.size \in Le24Sizes \/ line.size < 35 THEN InsoleLe24 ELSE InsoleGt24

ShipmentLine_insole_category(line) == InsoleLe24

-----------------------------------------------------------------------------
(* processor.py: DataProcessor *)

\* A plausible slip: the declared box count shown on both lines of a split.
rendered_boxes_on_every_line(product, category) == product.boxes

\* processor.py 117: `boxes if category in ["le24", "all"] else 0`
\* A plausible slip: the boxes shown on the le24 line only.
rendered_boxes_on_le24_only(product, category) ==
    IF category = "le24" THEN product.boxes ELSE 0

rendered_boxes(product, category) ==
    IF category \in { "le24", "all" } THEN product.boxes ELSE 0

_create_output_line(product, category, quantity) ==
    LET hs_code == IF category = "gt24" THEN product.hs_code_gt24
                   ELSE product.hs_code_le24
        sizes == DOMAIN product.qty_by_size
        insole_text ==
            IF category = "le24" THEN InsoleLe24
            ELSE IF category = "gt24" THEN InsoleGt24
            ELSE IF sizes # {}
                 THEN InsoleAll \o << " " >> \o IntStr(SetMin(sizes))
                      \o << "-" >> \o IntStr(SetMax(sizes))
                 ELSE InsoleAll
        net_weight == product.net_weight_per_pair * quantity
        gross_weight ==
            IF total_pairs(product) > 0
            THEN Round3(product.gross_weight_per_box * product.boxes * quantity,
                        total_pairs(product))
            ELSE 0
        amount == product.price * quantity
    IN  [ hs_code         |-> hs_code,
          article         |-> product.article,
          insole_category |-> insole_text,
          quantity        |-> quantity,
          net_weight      |-> Round3(net_weight, 1),
          gross_weight    |-> gross_weight,
          boxes           |-> rendered_boxes(product, category),
          original_boxes  |-> product.boxes,
          price           |-> product.price,
          amount          |-> Round2(amount, 1),
          kiz_codes       |-> << >>,
          box_group       |-> None ]

\* The lines one loop iteration of DataProcessor.process appends.
process_product(product) ==
    IF product.hs_code_le24 = product.hs_code_gt24
    THEN IF total_pairs(product) > 0
         THEN << _create_output_line(product, "all", total_pairs(product)) >>
         ELSE << >>
    ELSE (IF pairs_le24(product) > 0
          THEN << _create_output_line(product, "le24", pairs_le24(product)) >>
          ELSE << >>)
         \o
         (IF pairs_gt24(product) > 0
          THEN << _create_output_line(product, "gt24", pairs_gt24(product)) >>
          ELSE << >>)

RECURSIVE DataProcessor_process(_)
DataProcessor_process(prods) ==
    IF prods = << >> THEN << >>
    ELSE process_product(Head(prods)) \o DataProcessor_process(Tail(prods))

-----------------------------------------------------------------------------
(* shipment_processor.py: ShipmentProcessor *)

_convert_to_output(line) ==
    [ hs_code         |-> line.hs_code,
      article         |-> line.article,
      insole_category |-> ShipmentLine_insole_category(line),
      quantity        |-> line.halfpairs_loaded,
      net_weight      |-> ShipmentLine_total_net_weight(line),
      gross_weight    |-> IF ~IsNone(line.gross_weight_per_box)
                               /\ line.gross_weight_per_box[1] # 0
                          THEN line.gross_weight_per_box[1] ELSE 0,
      boxes           |-> IF ~IsNone(line.boxes_in_group)
                               /\ line.boxes_in_group[1] # 0
                          THEN line.boxes_in_group[1] ELSE 0,
      original_boxes  |-> IF ~IsNone(line.boxes_in_group)
                               /\ line.boxes_in_group[1] # 0
                          THEN line.boxes_in_group[1] ELSE 0,
      price           |-> line.price,
      amount          |-> ShipmentLine_total_amount(line),
      kiz_codes       |-> << >>,
      box_group       |-> line.box_group ]

RECURSIVE ShipmentProcessor_process(_)
ShipmentProcessor_process(lines) ==
    IF lines = << >> THEN << >>
    ELSE << _convert_to_output(Head(lines)) >>
         \o ShipmentProcessor_process(Tail(lines))

-----------------------------------------------------------------------------
(* generators/invoice.py, generators/specification.py,                      *)
(* generators/packing_list.py.  A document is recorded by what the claims  *)
(* read of it: per data row the item number and article cells (None when   *)
(* left blank) and the continuation decision, the totals row's box count,  *)
(* and the box column after the merging pass.                              *)

NoDocument ==
    [ generated |-> FALSE, rows |-> << >>, total_boxes |-> 0,
      merged |-> << >>, cells |-> << >> ]

\* A plausible slip: the predecessor's category label is not looked at.
Invoice_is_continuation_any_predecessor(lines, idx) ==
    /\ idx > 1
    /\ lines[idx].article = lines[idx - 1].article
    /\ StrContains(lines[idx].insole_category, Bolee24)
    /\ lines[idx].boxes = 0

\* generators/invoice.py: the row-building loop's is_continuation for lines[idx]
\* (idx counted from 1; prev_line is lines[idx - 1], None before the first).
Invoice_is_continuation(lines, idx) ==
    /\ idx > 1
    /\ lines[idx].article = lines[idx - 1].article
    /\ StrContains(lines[idx].insole_category, Bolee24)
    /\ lines[idx].boxes = 0
    /\ StrContains(lines[idx - 1].insole_category, Do24)

\* generators/invoice.py: is_continuation of the cell-merging pass (the loop after the workbook is reloaded).
Invoice_merge_is_continuation(lines, idx) ==
    /\ idx > 1
    /\ lines[idx].article = lines[idx - 1].article
    /\ StrContains(lines[idx].insole_category, Bolee24)
    /\ lines[idx].boxes = 0
    /\ StrContains(lines[idx - 1].insole_category, Do24)

\* A plausible slip: a continuation line counted with its original_boxes.
Invoice_boxes_counted_twice(line, is_continuation) ==
    IF ~is_continuation THEN line.boxes ELSE line.original_boxes

\* generators/invoice.py 128-129: what a line adds to total_boxes.
Invoice_boxes_counted(line, is_continuation) ==
    IF ~is_continuation THEN line.boxes ELSE 0

\* The row-building loop: acc is [rows, item_number, total_boxes].
RECURSIVE Invoice_rows_loop(_, _, _)
Invoice_rows_loop(lines, idx, acc) ==
    IF idx > Len(lines) THEN acc
    ELSE LET is_continuation == Invoice_is_continuation(lines, idx)
             item_number == IF is_continuation THEN acc.item_number
                            ELSE acc.item_number + 1
             row == [ item            |-> IF is_continuation THEN None
                                          ELSE Some(item_number),
                      article         |-> IF is_continuation THEN None
                                          ELSE Some(lines[idx].article),
                      is_continuation |-> is_continuation ]
         IN  Invoice_rows_loop(lines, idx + 1,
                [ rows        |-> Append(acc.rows, row),
                  item_number |-> item_number,
                  total_boxes |-> acc.total_boxes
                    + Invoice_boxes_counted(lines[idx], is_continuation) ])

\* The merging pass: acc is [merged, cells]; merged[r] says rows r-1..r of
\* the box column were merged, cells[r] is the value written into row r.
RECURSIVE Invoice_merge_loop(_, _, _)
Invoice_merge_loop(lines, idx, acc) ==
    IF idx > Len(lines) THEN acc
    ELSE LET is_continuation == Invoice_merge_is_continuation(lines, idx)
         IN  Invoice_merge_loop(lines, idx + 1,
                IF is_continuation
                THEN [ merged |-> Append(acc.merged, TRUE),
                       cells  |-> [acc.cells EXCEPT
                                     ![idx - 1] = Some(lines[idx].original_boxes)] ]
                ELSE IF lines[idx].boxes > 0
                THEN [ merged |-> Append(acc.merged, FALSE),
                       cells  |-> [acc.cells EXCEPT
                                     ![idx] = Some(lines[idx].boxes)] ]
                ELSE [ merged |-> Append(acc.merged, FALSE),
                       cells  |-> acc.cells ])

InvoiceGenerator_generate(lines) ==
    LET pass1 == Invoice_rows_loop(lines, 1,
                    [ rows |-> << >>, item_number |-> 0, total_boxes |-> 0 ])
        pass2 == Invoice_merge_loop(lines, 1,
                    [ merged |-> << >>,
                      cells  |-> [r \in 1..Len(lines) |-> None] ])
    IN  [ generated   |-> TRUE,
          rows        |-> pass1.rows,
          total_boxes |-> pass1.total_boxes,
          merged      |-> pass2.merged,
          cells       |-> pass2.cells ]

\* generators/specification.py: the row-building loop's is_continuation for lines[idx]
\* (idx counted from 1; prev_line is lines[idx - 1], None before the first).
Specification_is_continuation(lines, idx) ==
    /\ idx > 1
    /\ lines[idx].article = lines[idx - 1].article
    /\ StrContains(lines[idx].insole_category, Bolee24)
    /\ lines[idx].boxes = 0
    /\ StrContains(lines[idx - 1].insole_category, Do24)

\* A plausible slip: the merging pass does not look at the predecessor's label.
Specification_merge_is_continuation_any_predecessor(lines, idx) ==
    /\ idx > 1
    /\ lines[idx].article = lines[idx - 1].article
    /\ StrContains(lines[idx].insole_category, Bolee24)
    /\ lines[idx].boxes = 0

\* generators/specification.py: is_continuation of the cell-merging pass (_merge_cells_container).
Specification_merge_is_continuation(lines, idx) ==
    /\ idx > 1
    /\ lines[idx].article = lines[idx - 1].article
    /\ StrContains(lines[idx].insole_category, Bolee24)
    /\ lines[idx].boxes = 0
    /\ StrContains(lines[idx - 1].insole_category, Do24)

\* generators/specification.py 126-127: what a line adds to total_boxes.
Specification_boxes_counted(line, is_continuation) ==
    IF ~is_continuation THEN line.boxes ELSE 0

\* The row-building loop: acc is [rows, item_number, total_boxes].
RECURSIVE Specification_rows_loop(_, _, _)
Specification_rows_loop(lines, idx, acc) ==
    IF idx > Len(lines) THEN acc
    ELSE LET is_continuation == Specification_is_continuation(lines, idx)
             item_number == IF is_continuation THEN acc.item_number
                            ELSE acc.item_number + 1
             row == [ item            |-> IF is_continuation THEN None
                                          ELSE Some(item_number),
                      article         |-> IF is_continuation THEN None
                                          ELSE Some(lines[idx].article),
                      is_continuation |-> is_continuation ]
         IN  Specification_rows_loop(lines, idx + 1,
                [ rows        |-> Append(acc.rows, row),
                  item_number |-> item_number,
                  total_boxes |-> acc.total_boxes
                    + Specification_boxes_counted(lines[idx], is_continuation) ])

\* The merging pass: acc is [merged, cells]; merged[r] says rows r-1..r of
\* the box column were merged, cells[r] is the value written into row r.
RECURSIVE Specification_merge_loop(_, _, _)
Specification_merge_loop(lines, idx, acc) ==
    IF idx > Len(lines) THEN acc
    ELSE LET is_continuation == Specification_merge_is_continuation(lines, idx)
         IN  Specification_merge_loop(lines, idx + 1,
                IF is_continuation
                THEN [ merged |-> Append(acc.merged, TRUE),
                       cells  |-> [acc.cells EXCEPT
                                     ![idx - 1] = Some(lines[idx].original_boxes)] ]
                ELSE IF lines[idx].boxes > 0
                THEN [ merged |-> Append(acc.merged, FALSE),
                       cells  |-> [acc.cells EXCEPT
                                     ![idx] = Some(lines[idx].boxes)] ]
                ELSE [ merged |-> Append(acc.merged, FALSE),
                       cells  |-> acc.cells ])

SpecificationGenerator_generate(lines) ==
    LET pass1 == Specification_rows_loop(lines, 1,
                    [ rows |-> << >>, item_number |-> 0, total_boxes |-> 0 ])
        pass2 == Specification_merge_loop(lines, 1,
                    [ merged |-> << >>,
                      cells  |-> [r \in 1..Len(lines) |-> None] ])
    IN  [ generated   |-> TRUE,
          rows        |-> pass1.rows,
          total_boxes |-> pass1.total_boxes,
          merged      |-> pass2.merged,
          cells       |-> pass2.cells ]

\* generators/packing_list.py: the row-building loop's is_continuation for lines[idx]
\* (idx counted from 1; prev_line is lines[idx - 1], None before the first).
PackingList_is_continuation(lines, idx) ==
    /\ idx > 1
    /\ lines[idx].article = lines[idx - 1].article
    /\ StrContains(lines[idx].insole_category, Bolee24)
    /\ lines[idx].boxes = 0
    /\ StrContains(lines[idx - 1].insole_category, Do24)

\* A plausible slip: the merging pass does not compare the articles.
PackingList_merge_is_continuation_any_article(lines, idx) ==
    /\ idx > 1
    /\ StrContains(lines[idx].insole_category, Bolee24)
    /\ lines[idx].boxes = 0
    /\ StrContains(lines[idx - 1].insole_category, Do24)

\* generators/packing_list.py: is_continuation of the cell-merging pass (_merge_boxes_container).
PackingList_merge_is_continuation(lines, idx) ==
    /\ idx > 1
    /\ lines[idx].article = lines[idx - 1].article
    /\ StrContains(lines[idx].insole_category, Bolee24)
    /\ lines[idx].boxes = 0
    /\ StrContains(lines[idx - 1].insole_category, Do24)

\* generators/packing_list.py 113-114: what a line adds to total_boxes.
PackingList_boxes_counted(line, is_continuation) ==
    IF ~is_continuation THEN line.boxes ELSE 0

\* The row-building loop: acc is [rows, item_number, total_boxes].
RECURSIVE PackingList_rows_loop(_, _, _)
PackingList_rows_loop(lines, idx, acc) ==
    IF idx > Len(lines) THEN acc
    ELSE LET is_continuation == PackingList_is_continuation(lines, idx)
             item_number == IF is_continuation THEN acc.item_number
                            ELSE acc.item_number + 1
             row == [ item            |-> IF is_continuation THEN None
                                          ELSE Some(item_number),
                      article         |-> IF is_continuation THEN None
                                          ELSE Some(lines[idx].article),
                      is_continuation |-> is_continuation ]
         IN  PackingList_rows_loop(lines, idx + 1,
                [ rows        |-> Append(acc.rows, row),
                  item_number |-> item_number,
                  total_boxes |-> acc.total_boxes
                    + PackingList_boxes_counted(lines[idx], is_continuation) ])

\* The merging pass: acc is [merged, cells]; merged[r] says rows r-1..r of
\* the box column were merged, cells[r] is the value written into row r.
RECURSIVE PackingList_merge_loop(_, _, _)
PackingList_merge_loop(lines, idx, acc) ==
    IF idx > Len(lines) THEN acc
    ELSE LET is_continuation == PackingList_merge_is_continuation(lines, idx)
         IN  PackingList_merge_loop(lines, idx + 1,
                IF is_continuation
                THEN [ merged |-> Append(acc.merged, TRUE),
                       cells  |-> [acc.cells EXCEPT
                                     ![idx - 1] = Some(lines[idx].original_boxes)] ]
                ELSE IF lines[idx].boxes > 0
                THEN [ merged |-> Append(acc.merged, FALSE),
                       cells  |-> [acc.cells EXCEPT
                                     ![idx] = Some(lines[idx].boxes)] ]
                ELSE [ merged |-> Append(acc.merged, FALSE),
                       cells  |-> acc.cells ])

PackingListGenerator_generate(lines) ==
    LET pass1 == PackingList_rows_loop(lines, 1,
                    [ rows |-> << >>, item_number |-> 0, total_boxes |-> 0 ])
        pass2 == PackingList_merge_loop(lines, 1,
                    [ merged |-> << >>,
                      cells  |-> [r \in 1..Len(lines) |-> None] ])
    IN  [ generated   |-> TRUE,
          rows        |-> pass1.rows,
          total_boxes |-> pass1.total_boxes,
          merged      |-> pass2.merged,
          cells       |-> pass2.cells ]

-----------------------------------------------------------------------------
(* Characters and the character classes the regular expressions of         *)
(* km_loader.py use.                                                       *)

LatinUpperSeq == << "A","B","C","D","E","F","G","H","I","J","K","L","M",
                    "N","O","P","Q","R","S","T","U","V","W","X","Y","Z" >>

LatinLowerSeq == << "a","b","c","d","e","f","g","h","i","j","k","l","m",
                    "n","o","p","q","r","s","t","u","v","w","x","y","z" >>

CyrUpperSeq == << "~A","~B","~V","~D","~E","~Z","~I","~K","~L","~M","~N",
                  "~O","~R","~S","~T","~U","~F","~Y","~Q" >>

CyrLowerSeq == << "~a","~b","~v","~d","~e","~z","~i","~k","~l","~m","~n",
                  "~o","~r","~s","~t","~u","~f","~y","~q" >>

SeqRange(q) == { q[i] : i \in 1..Len(q) }

LatinUpper == SeqRange(LatinUpperSeq)

LatinLower == SeqRange(LatinLowerSeq)

Digits == SeqRange(DigitChar)

Cyrillic == SeqRange(CyrUpperSeq) \cup SeqRange(CyrLowerSeq)

\* \s
Whitespace == { " " }

\* [\s\W]: whitespace and the characters that are not word characters.
NonWord == { " ", ".", "-", "(", ")", ",", "/", ":" }

\* str.lower() of one character (what re.IGNORECASE compares).
Lower(c) ==
    IF c \in LatinUpper
    THEN LatinLowerSeq[CHOOSE i \in 1..Len(LatinUpperSeq) : LatinUpperSeq[i] = c]
    ELSE IF c \in SeqRange(CyrUpperSeq)
    THEN CyrLowerSeq[CHOOSE i \in 1..Len(CyrUpperSeq) : CyrUpperSeq[i] = c]
    ELSE c

\* The length of the longest run of characters of Class starting at s[pos].
RunLen(s, pos, Class) ==
    CHOOSE k \in 0..(Len(s) - pos + 1) :
        /\ \A j \in 0..(k - 1) : s[pos + j] \in Class
        /\ (pos + k > Len(s) \/ s[pos + k] \notin Class)

\* str.strip(): leading and trailing whitespace removed.
Strip(s) ==
    IF \A i \in 1..Len(s) : s[i] \in Whitespace THEN << >>
    ELSE LET first == CHOOSE i \in 1..Len(s) :
                         /\ s[i] \notin Whitespace
                         /\ \A j \in 1..(i - 1) : s[j] \in Whitespace
             last  == CHOOSE i \in 1..Len(s) :
                         /\ s[i] \notin Whitespace
                         /\ \A j \in (i + 1)..Len(s) : s[j] \in Whitespace
         IN  SubSeq(s, first, last)

\* str.rstrip(chars)
RECURSIVE RStrip(_, _)
RStrip(s, Class) ==
    IF s # << >> /\ s[Len(s)] \in Class
    THEN RStrip(SubSeq(s, 1, Len(s) - 1), Class)
    ELSE s

-----------------------------------------------------------------------------
(* km_loader.py: KMLoader *)

packaging_suffixes == << <<"P","R","G">>, <<"B","O","X">>, <<"P","K","G">>,
                         <<"C","T","N">>, <<"P","C","S">> >>

\* re.sub(r'\s*' + suffix + r'$', '', s, flags=re.IGNORECASE)
sub_suffix(s, suffix) ==
    LET n == Len(s)
        k == Len(suffix)
    IN  IF n >= k /\ \A j \in 1..k : Lower(s[n - k + j]) = Lower(suffix[j])
        THEN RStrip(SubSeq(s, 1, n - k), Whitespace)
        ELSE s

\* The `for suffix in packaging_suffixes` loop, from the i-th suffix on.
RECURSIVE strip_suffixes(_, _)
strip_suffixes(s, i) ==
    IF i > Len(packaging_suffixes) THEN s
    ELSE strip_suffixes(sub_suffix(s, packaging_suffixes[i]), i + 1)

_normalize_article(article) ==
    IF article = << >> THEN article
    ELSE strip_suffixes(Strip(article), 1)

LatinAlnum == LatinUpper \cup LatinLower \cup Digits

\* Pattern 1: арт\.[\s\W]*([A-Z0-9][A-Z0-9\-]+?)(?:\s*[\(,]|\s+[А-Я]), re.IGNORECASE.
\* The terminator (?:\s*[\(,]|\s+[А-Я]) matched at s[q].
art_terminator(s, q) ==
    LET w == RunLen(s, q, Whitespace)
    IN  \/ \E j \in 0..w : q + j <= Len(s) /\ s[q + j] \in { "(", "," }
        \/ \E j \in 1..w : q + j <= Len(s) /\ s[q + j] \in Cyrillic

\* The lengths m (beyond the first character) the lazy group can take when the
\* literal matched at s[p..p+3].
art_group_lengths(s, p) ==
    LET g == p + 4 + RunLen(s, p + 4, NonWord)
    IN  IF g > Len(s) \/ s[g] \notin LatinAlnum THEN { }
        ELSE { m \in 1..(Len(s) - g) :
                 /\ \A j \in 1..m : s[g + j] \in LatinAlnum \cup { "-" }
                 /\ art_terminator(s, g + m + 1) }

art_starts(s) ==
    { p \in 1..(Len(s) - 3) :
        /\ Lower(s[p]) = "~a" /\ Lower(s[p + 1]) = "~r" /\ Lower(s[p + 2]) = "~t"
        /\ s[p + 3] = "."
        /\ art_group_lengths(s, p) # { } }

\* Pattern 2: \.[\s\W]*([A-Z]{1,4}[0-9\-]+[A-Za-z0-9\-]*)
dot_group_start(s, p) == p + 1 + RunLen(s, p + 1, NonWord)

dot_matches(s, p) ==
    LET g == dot_group_start(s, p)
        letters == RunLen(s, g, LatinUpper)
    IN  /\ s[p] = "."
        /\ letters \in 1..4
        /\ RunLen(s, g + letters, Digits \cup { "-" }) >= 1

\* Pattern 3: ([A-Z]{1,2}[0-9]{2,}[A-Z]?[0-9\-]+[A-Z0-9]*).  The end (exclusive)
\* of [A-Z]?[0-9\-]+[A-Z0-9]* matched greedily at s[q], 0 when it does not match.
loose_tail_end(s, q) ==
    LET with_letter == q <= Len(s) /\ s[q] \in LatinUpper
                       /\ RunLen(s, q + 1, Digits \cup { "-" }) >= 1
        from == IF with_letter THEN q + 1 ELSE q
        h == RunLen(s, from, Digits \cup { "-" })
    IN  IF h >= 1
        THEN from + h + RunLen(s, from + h, LatinUpper \cup Digits)
        ELSE 0

\* The end (exclusive) of the match of pattern 3 starting at s[p] with `a`
\* leading letters, 0 when there is none: the longest digit run {2,} first.
loose_end_with(s, p, a) ==
    LET digits == RunLen(s, p + a, Digits)
        ok == { d \in 2..digits : loose_tail_end(s, p + a + d) # 0 }
    IN  IF (\A j \in 0..(a - 1) : p + j <= Len(s) /\ s[p + j] \in LatinUpper)
           /\ ok # { }
        THEN loose_tail_end(s, p + a + SetMax(ok))
        ELSE 0

loose_end(s, p) ==
    IF loose_end_with(s, p, 2) # 0 THEN loose_end_with(s, p, 2)
    ELSE loose_end_with(s, p, 1)

\* Optional[str]
_extract_article(nomenclature) ==
    LET s == nomenclature
        arts == art_starts(s)
        dots == { p \in 1..Len(s) : dot_matches(s, p) }
        loose == { p \in 1..Len(s) : loose_end(s, p) # 0 }
    IN  IF arts # { }
        THEN LET p == SetMin(arts)
                 g == p + 4 + RunLen(s, p + 4, NonWord)
                 m == SetMin(art_group_lengths(s, p))
             IN  Some(RStrip(Strip(SubSeq(s, g, g + m)), { "-" }))
        ELSE IF dots # { }
        THEN LET p == SetMin(dots)
                 g == dot_group_start(s, p)
                 letters == RunLen(s, g, LatinUpper)
             IN  Some(SubSeq(s, g, g + letters - 1
                     + RunLen(s, g + letters, LatinAlnum \cup { "-" })))
        ELSE IF loose # { }
        THEN LET p == SetMin(loose)
             IN  Some(SubSeq(s, p, loose_end(s, p) - 1))
        ELSE None

EmptyIndex == [ key \in { } |-> << >> ]

\* The `for _, row in df.iterrows()` loop of _load from row i on.  The
\* result is [ok, index]; ok is FALSE when int(size) raises for a NaN size.
RECURSIVE build_index(_, _, _)
build_index(rows, i, index) ==
    IF i > Len(rows) THEN [ ok |-> TRUE, index |-> index ]
    ELSE LET article == _extract_article(rows[i].nomenclature)
             size    == rows[i].size
             km      == rows[i].km
         IN  IF ~IsNone(article) /\ article[1] # << >> /\ ~IsNone(km)
             THEN IF IsNone(size)
                  THEN [ ok |-> FALSE, index |-> index ]
                  ELSE LET key == << article[1], size[1] >>
                           old == IF key \in DOMAIN index THEN index[key]
                                  ELSE << >>
                       IN  build_index(rows, i + 1,
                              [ k \in (DOMAIN index) \cup { key } |->
                                  IF k = key THEN Append(old, km[1])
                                  ELSE index[k] ])
             ELSE build_index(rows, i + 1, index)

\* A plausible slip: a row without article makes the load raise.
_load_every_article_extracted(file) ==
    IF file.columns # 4
       \/ \E i \in 1..Len(file.rows) :
              IsNone(_extract_article(file.rows[i].nomenclature))
    THEN [ ok |-> FALSE, index |-> EmptyIndex ]
    ELSE build_index(file.rows, 1, EmptyIndex)

\* A plausible slip: the count of columns is not looked at.
_load_any_columns(file) == build_index(file.rows, 1, EmptyIndex)

\* KMLoader.__init__ / _load: [ok, index]; ok is FALSE when _load raises.
_load(file) ==
    IF file.columns < 4
    THEN [ ok |-> FALSE, index |-> EmptyIndex ]
    ELSE IF file.columns # 4
    THEN [ ok |-> FALSE, index |-> EmptyIndex ]
    ELSE build_index(file.rows, 1, EmptyIndex)

RECURSIVE collect_codes(_, _, _)
collect_codes(index, normalized_article, sizes) ==
    IF sizes = << >> THEN << >>
    ELSE LET key == << normalized_article, Head(sizes) >>
         IN  (IF key \in DOMAIN index THEN index[key] ELSE << >>)
             \o collect_codes(index, normalized_article, Tail(sizes))

\* A plausible slip: the loop over the sizes left after the first one.
get_km_codes_first_size_only(index, article, sizes) ==
    IF sizes = << >> THEN << >>
    ELSE collect_codes(index, _normalize_article(article), << Head(sizes) >>)

get_km_codes(index, article, sizes) ==
    collect_codes(index, _normalize_article(article), sizes)

\* A plausible slip: an unrecognised label asks for no size.
category_sizes_unknown_label_none(insole_category) ==
    IF StrContains(insole_category, Do24) THEN << 35, 36, 37 >>
    ELSE IF StrContains(insole_category, Bolee24) THEN << 38, 39, 40, 41 >>
    ELSE << >>

\* The local `sizes` of get_km_codes_for_category.
category_sizes(insole_category) ==
    IF StrContains(insole_category, Do24) THEN << 35, 36, 37 >>
    ELSE IF StrContains(insole_category, Bolee24) THEN << 38, 39, 40, 41 >>
    ELSE << 35, 36, 37, 38, 39, 40, 41 >>

get_km_codes_for_category(index, article, insole_category) ==
    get_km_codes(index, article, category_sizes(insole_category))

-----------------------------------------------------------------------------
(* shipment_parser.py: ShipmentParser.  A spreadsheet row is                *)
(* [article, hs_code, size, halfpairs, korobok, net_weight_per_unit,       *)
(*  gross_weight_per_box, price]; halfpairs, korobok and                   *)
(* gross_weight_per_box are None for an empty (NaN) cell.                  *)

\* _detect_box_groups: the rows that start a group (a value in the box column).
box_group_starts(df) == { i \in 1..Len(df) : ~IsNone(df[i].korobok) }

\* _get_box_group(row_idx): <<group id, box_count>>, each Optional.
_get_box_group(df, idx) ==
    LET before == { i \in box_group_starts(df) : i <= idx }
    IN  IF before = { } THEN << None, None >>
        ELSE << Some(Cardinality(before) - 1),
                Some(df[SetMax(before)].korobok[1]) >>

_parse_row(df, idx) ==
    LET row == df[idx]
    IN  [ article              |-> Strip(row.article),
          hs_code              |-> row.hs_code,
          size                 |-> row.size,
          halfpairs_loaded     |-> IF IsNone(row.halfpairs) THEN 1
                                   ELSE row.halfpairs[1],
          box_group            |-> _get_box_group(df, idx)[1],
          boxes_in_group       |-> _get_box_group(df, idx)[2],
          net_weight_per_unit  |-> row.net_weight_per_unit,
          gross_weight_per_box |-> row.gross_weight_per_box,
          price                |-> row.price ]

ShipmentParser_parse(df) == [ idx \in 1..Len(df) |-> _parse_row(df, idx) ]

-----------------------------------------------------------------------------
(* run.py: ShusteriAutomation *)

RECURSIVE enrich_loop(_, _, _)
enrich_loop(lines, index, i) ==
    IF i > Len(lines) THEN [ lines |-> lines, enriched_count |-> 0 ]
    ELSE LET km_codes == get_km_codes_for_category(
                             index, lines[i].article, lines[i].insole_category)
             rest == enrich_loop(lines, index, i + 1)
         IN  IF km_codes # << >>
             THEN [ lines |-> [rest.lines EXCEPT ![i].kiz_codes = km_codes],
                    enriched_count |-> rest.enriched_count + 1 ]
             ELSE rest

\* A plausible slip: an enriched line's quantity recounted from its codes.
enrich_with_km_codes_recounting(lines, index) ==
    LET enriched == enrich_loop(lines, index, 1)
    IN  [ lines |-> [ i \in 1..Len(lines) |->
                        IF enriched.lines[i].kiz_codes # << >>
                        THEN [ enriched.lines[i] EXCEPT
                                 !.quantity = Len(enriched.lines[i].kiz_codes) ]
                        ELSE enriched.lines[i] ],
          enriched_count |-> enriched.enriched_count ]

\* A plausible slip: every line counted as enriched.
enrich_with_km_codes_counting_all(lines, index) ==
    [ lines |-> enrich_loop(lines, index, 1).lines,
      enriched_count |-> Len(lines) ]

enrich_with_km_codes(lines, index) == enrich_loop(lines, index, 1)

-----------------------------------------------------------------------------
(* Inputs *)

ArticleG1 == << "G", "1" >>

ArticleG2 == << "G", "2" >>

HsLe == "6403911100"

HsGt == "6403911800"

\* Decimal inputs, in 1/10000: 10, 0.125; 0.5, 0.3705; 15, 0.001
Prices == { 100000, 1250 }

NetWeights == { 5000, 3705 }

GrossWeights == { 150000, 10 }

\* The size columns an input row fills: both ends of each band.
InputSizes == { 35, 37, 38, 42 }

\* qty_by_size as InputFileParser.parse builds it: only positive quantities.
QtyDicts ==
    UNION { [ S -> 1..MaxQty ] : S \in SUBSET InputSizes }

\* One record at a time, every field varied (SpecLine).
RichProductLines ==
    [ article             : { ArticleG1 },
      hs_code_le24        : { HsLe, "" },
      hs_code_gt24        : { HsLe, HsGt, "" },
      price               : Prices,
      boxes               : 0..MaxBoxes,
      net_weight_per_pair : NetWeights,
      gross_weight_per_box: GrossWeights,
      qty_by_size         : QtyDicts ]

RichShipmentRows ==
    [ article             : { ArticleG1 },
      hs_code             : { HsLe },
      size                : { 36 },
      halfpairs           : { None } \cup { Some(n) : n \in 0..MaxQty },
      korobok             : { None } \cup { Some(n) : n \in 0..MaxBoxes },
      net_weight_per_unit : NetWeights,
      gross_weight_per_box: { None } \cup { Some(g) : g \in GrossWeights },
      price               : Prices ]

\* Records of the whole-run specification (Spec): two articles, one or two
\* tariff codes, quantities in the lower band, the upper band or both.
ProductLines ==
    [ article             : { ArticleG1, ArticleG2 },
      hs_code_le24        : { HsLe },
      hs_code_gt24        : { HsLe, HsGt },
      price               : { 100000 },
      boxes               : { 1, 2 },
      net_weight_per_pair : { 5000 },
      gross_weight_per_box: { 150000 },
      qty_by_size         : { [ z \in { 35, 36 } |-> 10 ],
                              [ z \in { 38, 42 } |-> 10 ],
                              [ z \in { 35, 36, 38 } |-> IF z = 38 THEN 20 ELSE 10 ] } ]

ShipmentRows ==
    { row \in [ article             : { ArticleG1, ArticleG2 },
                hs_code             : { HsLe },
                size                : { 36, 38 },
                halfpairs           : { Some(1), Some(2) },
                korobok             : { None, Some(1), Some(2) },
                net_weight_per_unit : { 3705 },
                gross_weight_per_box: { None },
                price               : { 1250 } ] :
        row.size = 38 => (row.article = ArticleG1 /\ row.korobok = None) }

\* Descriptions of reference rows: "Ту арт.G1(", "арт.G1PRG(", "арт.G2 Ту"
\* and "Туфли" (no article).
NomG1 == << "~T", "~u", " ", "~a", "~r", "~t", ".", "G", "1", "(" >>

NomG1PRG == << "~a", "~r", "~t", ".", "G", "1", "P", "R", "G", "(" >>

NomG2 == << "~a", "~r", "~t", ".", "G", "2", " ", "~T", "~u" >>

NomNone == << "~T", "~u", "~f", "~l", "~i" >>

KmRow(nomenclature, size, km) ==
    [ nomenclature |-> nomenclature, size |-> size, km |-> km ]

\* Rows of the reference dataset (SpecKM): two units of one article and size,
\* a second size, an article carrying a packaging suffix, a second article,
\* a description without article, an empty size cell, an empty code cell,
\* a description without article beside an empty size cell.
KmRows ==
    { KmRow(NomG1, Some(35), Some("K1")),
      KmRow(NomG1, Some(35), Some("K2")),
      KmRow(NomG1, Some(38), Some("K3")),
      KmRow(NomG1PRG, Some(35), Some("K4")),
      KmRow(NomG2, Some(35), Some("K5")),
      KmRow(NomNone, Some(35), Some("K6")),
      KmRow(NomG1, None, Some("K7")),
      KmRow(NomG1, Some(35), None),
      KmRow(NomNone, None, Some("K9")) }

\* The reference files of a whole run (Spec): a well-formed one and one with
\* too few columns.
KmFiles ==
    { [ columns |-> 4,
        rows |-> << KmRow(NomG1, Some(35), Some("K1")),
                    KmRow(NomG1, Some(38), Some("K3")),
                    KmRow(NomG1, Some(42), Some("K8")),
                    KmRow(NomG2, Some(36), Some("K5")) >> ],
      [ columns |-> 3,
        rows |-> << KmRow(NomG1, Some(35), Some("K1")) >> ] }

\* More reference files KMLoader raises on (SpecFair): one with too many
\* columns and one with an empty size cell in its second row.
FailingKmFiles ==
    { [ columns |-> 5,
        rows |-> << KmRow(NomG1, Some(35), Some("K1")) >> ],
      [ columns |-> 4,
        rows |-> << KmRow(NomG1, Some(35), Some("K1")),
                    KmRow(NomG1, None, Some("K7")) >> ] }

\* Articles and suffix spellings queried (SpecKM).
BaseArticles == { ArticleG1, ArticleG2, << "G", "1", "P", "R", "G" >> }

SuffixForms ==
    SeqRange(packaging_suffixes)
    \cup { << " ", "p", "r", "g" >>, << " ", " ", "B", "o", "x" >> }

QueryArticles ==
    BaseArticles \cup { a \o x : a \in BaseArticles, x \in SuffixForms }

QuerySizes == { << 35 >>, << 38, 35 >> }

\* Category labels queried (SpecKM): the two bands, a label of neither, "".
QueryLabels == { InsoleLe24, InsoleGt24, InsoleAll, << >> }

\* The last query of the loader: insole_category is None for a direct
\* get_km_codes call; sizes is the list get_km_codes was called with.
NoQuery == [ called |-> FALSE, article |-> << >>, insole_category |-> None,
             sizes |-> << >>, result |-> << >> ]

NoFile == [ columns |-> 0, rows |-> << >> ]

-----------------------------------------------------------------------------
(* The run: ShusteriAutomation.process, one action per call it makes *)

Init ==
    /\ mode \in { "container", "shipment" }
    /\ products = << >>
    /\ shipment_file = << >>
    /\ shipment_lines = << >>
    /\ output_lines = << >>
    /\ km_file = NoFile
    /\ km_index = EmptyIndex
    /\ km_state = "none"
    /\ km_query = NoQuery
    /\ enriched_count = 0
    /\ invoice = NoDocument
    /\ specification = NoDocument
    /\ packing_list = NoDocument
    /\ pc = "input"

\* The input file holds one more product row (InputFileParser.parse appends it).
ReadProduct(product) ==
    /\ mode = "container"
    /\ pc = "input"
    /\ Len(products) < MaxRecords
    /\ products' = Append(products, product)
    /\ UNCHANGED << mode, shipment_file, shipment_lines, output_lines, km_file,
                    km_index, km_state, km_query, enriched_count, invoice,
                    specification, packing_list, pc >>

\* The shipment spreadsheet holds one more row.
ReadShipmentRow(row) ==
    /\ mode = "shipment"
    /\ pc = "input"
    /\ Len(shipment_file) < MaxRecords
    /\ shipment_file' = Append(shipment_file, row)
    /\ UNCHANGED << mode, products, shipment_lines, output_lines, km_file,
                    km_index, km_state, km_query, enriched_count, invoice,
                    specification, packing_list, pc >>

\* run.py 440-451: `if not products: return`, then DataProcessor.process.
ProcessContainer ==
    /\ mode = "container"
    /\ pc = "input"
    /\ products # << >>
    /\ output_lines' = DataProcessor_process(products)
    /\ pc' = "processed"
    /\ UNCHANGED << mode, products, shipment_file, shipment_lines, km_file,
                    km_index, km_state, km_query, enriched_count, invoice,
                    specification, packing_list >>

\* run.py 455-456: ShipmentParser.parse.
ParseShipment ==
    /\ mode = "shipment"
    /\ pc = "input"
    /\ shipment_file # << >>
    /\ shipment_lines' = ShipmentParser_parse(shipment_file)
    /\ pc' = "parsed"
    /\ UNCHANGED << mode, products, shipment_file, output_lines, km_file,
                    km_index, km_state, km_query, enriched_count, invoice,
                    specification, packing_list >>

\* run.py 458-467: ShipmentProcessor.process.
ProcessShipment ==
    /\ mode = "shipment"
    /\ pc = "parsed"
    /\ shipment_lines # << >>
    /\ output_lines' = ShipmentProcessor_process(shipment_lines)
    /\ pc' = "processed"
    /\ UNCHANGED << mode, products, shipment_file, shipment_lines, km_file,
                    km_index, km_state, km_query, enriched_count, invoice,
                    specification, packing_list >>

\* run.py 519 / 347
GenerateInvoice ==
    /\ pc = "enriched"
    /\ invoice' = InvoiceGenerator_generate(output_lines)
    /\ pc' = "invoice"
    /\ UNCHANGED << mode, products, shipment_file, shipment_lines, output_lines,
                    km_file, km_index, km_state, km_query, enriched_count,
                    specification, packing_list >>

\* run.py 522 / 350
GenerateSpecification ==
    /\ pc = "invoice"
    /\ specification' = SpecificationGenerator_generate(output_lines)
    /\ pc' = "specification"
    /\ UNCHANGED << mode, products, shipment_file, shipment_lines, output_lines,
                    km_file, km_index, km_state, km_query, enriched_count,
                    invoice, packing_list >>

\* run.py 525 / 353
GeneratePackingList ==
    /\ pc = "specification"
    /\ packing_list' = PackingListGenerator_generate(output_lines)
    /\ pc' = "done"
    /\ UNCHANGED << mode, products, shipment_file, shipment_lines, output_lines,
                    km_file, km_index, km_state, km_query, enriched_count,
                    invoice, specification >>

\* run.py 472: no reference file was chosen.
SkipKM ==
    /\ pc = "processed"
    /\ pc' = "enriched"
    /\ UNCHANGED << mode, products, shipment_file, shipment_lines, output_lines,
                    km_file, km_index, km_state, km_query, enriched_count,
                    invoice, specification, packing_list >>

\* A plausible slip: the exception of KMLoader is not caught and ends the run.
LoadKM_failure_ends_run(file) ==
    /\ pc = "processed"
    /\ km_file' = file
    /\ LET loaded == _load(file)
       IN  IF loaded.ok
           THEN /\ km_index' = loaded.index
                /\ km_state' = "loaded"
                /\ pc' = "km_loaded"
           ELSE /\ km_index' = km_index
                /\ km_state' = "failed"
                /\ pc' = "done"
    /\ UNCHANGED << mode, products, shipment_file, shipment_lines, output_lines,
                    km_query, enriched_count, invoice, specification,
                    packing_list >>

\* run.py 475: KMLoader(str(km_file)); 478-481 when it raises.
LoadKM(file) ==
    /\ pc = "processed"
    /\ km_file' = file
    /\ LET loaded == _load(file)
       IN  IF loaded.ok
           THEN /\ km_index' = loaded.index
                /\ km_state' = "loaded"
                /\ pc' = "km_loaded"
           ELSE /\ km_index' = km_index
                /\ km_state' = "failed"
                /\ pc' = "enriched"
    /\ UNCHANGED << mode, products, shipment_file, shipment_lines, output_lines,
                    km_query, enriched_count, invoice, specification,
                    packing_list >>

\* run.py 476: enrich_with_km_codes(output_lines, km_loader).
Enrich ==
    /\ pc = "km_loaded"
    /\ LET enriched == enrich_with_km_codes(output_lines, km_index)
       IN  /\ output_lines' = enriched.lines
           /\ enriched_count' = enriched.enriched_count
    /\ pc' = "enriched"
    /\ UNCHANGED << mode, products, shipment_file, shipment_lines, km_file,
                    km_index, km_state, km_query, invoice, specification,
                    packing_list >>

Next ==
    \/ \E product \in ProductLines : ReadProduct(product)
    \/ \E row \in ShipmentRows : ReadShipmentRow(row)
    \/ ProcessContainer
    \/ ParseShipment
    \/ ProcessShipment
    \/ SkipKM
    \/ \E file \in KmFiles : LoadKM(file)
    \/ Enrich
    \/ GenerateInvoice
    \/ GenerateSpecification
    \/ GeneratePackingList

Spec == Init /\ [][Next]_vars

\* SpecFair: the run over an input file of one record, with every reference
\* file.  process() is sequential: once the step before it has returned,
\* each generator is called.
InitRun ==
    /\ \/ /\ mode = "container"
          /\ products \in { << product >> : product \in ProductLines }
          /\ shipment_file = << >>
       \/ /\ mode = "shipment"
          /\ products = << >>
          /\ shipment_file \in { << row >> : row \in ShipmentRows }
    /\ shipment_lines = << >>
    /\ output_lines = << >>
    /\ km_file = NoFile
    /\ km_index = EmptyIndex
    /\ km_state = "none"
    /\ km_query = NoQuery
    /\ enriched_count = 0
    /\ invoice = NoDocument
    /\ specification = NoDocument
    /\ packing_list = NoDocument
    /\ pc = "input"

NextRun ==
    \/ ProcessContainer
    \/ ParseShipment
    \/ ProcessShipment
    \/ SkipKM
    \/ \E file \in KmFiles \cup FailingKmFiles : LoadKM(file)
    \/ Enrich
    \/ GenerateInvoice
    \/ GenerateSpecification
    \/ GeneratePackingList

SpecFair ==
    /\ InitRun
    /\ [][NextRun]_vars
    /\ WF_vars(GenerateInvoice)
    /\ WF_vars(GenerateSpecification)
    /\ WF_vars(GeneratePackingList)

-----------------------------------------------------------------------------
(* SpecLine: the processors applied to one input row, every field varied *)

InitLine ==
    /\ \/ /\ mode = "container"
          /\ products \in { << product >> : product \in RichProductLines }
          /\ shipment_file = << >>
       \/ /\ mode = "shipment"
          /\ products = << >>
          /\ shipment_file \in { << row >> : row \in RichShipmentRows }
    /\ shipment_lines = << >>
    /\ output_lines = << >>
    /\ km_file = NoFile
    /\ km_index = EmptyIndex
    /\ km_state = "none"
    /\ km_query = NoQuery
    /\ enriched_count = 0
    /\ invoice = NoDocument
    /\ specification = NoDocument
    /\ packing_list = NoDocument
    /\ pc = "input"

NextLine ==
    \/ ProcessContainer
    \/ ParseShipment
    \/ ProcessShipment

SpecLine == InitLine /\ [][NextLine]_vars

-----------------------------------------------------------------------------
(* SpecKM: a KMLoader built from a reference file and queried *)

InitKM ==
    /\ mode = "container"
    /\ products = << >>
    /\ shipment_file = << >>
    /\ shipment_lines = << >>
    /\ output_lines = << >>
    /\ km_file \in { [ columns |-> c, rows |-> << >> ] : c \in { 3, 4, 5 } }
    /\ km_index = EmptyIndex
    /\ km_state = "none"
    /\ km_query = NoQuery
    /\ enriched_count = 0
    /\ invoice = NoDocument
    /\ specification = NoDocument
    /\ packing_list = NoDocument
    /\ pc = "km_input"

\* The reference file holds one more row.
KmAddRow(row) ==
    /\ pc = "km_input"
    /\ Len(km_file.rows) < MaxKmRows
    /\ km_file' = [ km_file EXCEPT !.rows = Append(@, row) ]
    /\ UNCHANGED << mode, products, shipment_file, shipment_lines, output_lines,
                    km_index, km_state, km_query, enriched_count, invoice,
                    specification, packing_list, pc >>

\* KMLoader(file_path)
KmLoad ==
    /\ pc = "km_input"
    /\ LET loaded == _load(km_file)
       IN  IF loaded.ok
           THEN km_index' = loaded.index /\ km_state' = "loaded"
           ELSE km_index' = km_index /\ km_state' = "failed"
    /\ pc' = "km_ready"
    /\ UNCHANGED << mode, products, shipment_file, shipment_lines, output_lines,
                    km_file, km_query, enriched_count, invoice, specification,
                    packing_list >>

\* km_loader.get_km_codes(article, sizes).  get_km_codes only reads _index, so
\* a query does not depend on the queries before it: each run asks one.
KmQuery(article, sizes) ==
    /\ pc = "km_ready"
    /\ km_state = "loaded"
    /\ ~km_query.called
    /\ km_query' = [ called |-> TRUE, article |-> article,
                     insole_category |-> None, sizes |-> sizes,
                     result |-> get_km_codes(km_index, article, sizes) ]
    /\ UNCHANGED << mode, products, shipment_file, shipment_lines, output_lines,
                    km_file, km_index, km_state, enriched_count, invoice,
                    specification, packing_list, pc >>

\* km_loader.get_km_codes_for_category(article, insole_category)
KmQueryCategory(article, insole_category) ==
    /\ pc = "km_ready"
    /\ km_state = "loaded"
    /\ ~km_query.called
    /\ km_query' = [ called |-> TRUE, article |-> article,
                     insole_category |-> Some(insole_category),
                     sizes |-> category_sizes(insole_category),
                     result |-> get_km_codes_for_category(km_index, article,
                                                          insole_category) ]
    /\ UNCHANGED << mode, products, shipment_file, shipment_lines, output_lines,
                    km_file, km_index, km_state, enriched_count, invoice,
                    specification, packing_list, pc >>

NextKM ==
    \/ \E row \in KmRows : KmAddRow(row)
    \/ KmLoad
    \/ \E article \in QueryArticles, sizes \in QuerySizes :
          KmQuery(article, sizes)
    \/ \E article \in QueryArticles, insole_category \in QueryLabels :
          KmQueryCategory(article, insole_category)

SpecKM == InitKM /\ [][NextKM]_vars

-----------------------------------------------------------------------------
(* Properties.  The quantities and the continuation rule are restated here  *)
(* from the specification, independently of the operators that model the   *)
(* code, and compared with what the actions left in the state.             *)

Processed == pc \notin { "input", "parsed", "km_input", "km_ready" }

\* Quantity of a record over the sizes of S.
BandQty(product, S) ==
    SumOver(product.qty_by_size, (DOMAIN product.qty_by_size) \cap S)

SmallBand == 35..37

LargeBand == 38..42

AllSizes == 35..42

CodesDiffer(product) == product.hs_code_le24 # product.hs_code_gt24

\* The number of lines the specification has a record produce.
SpecLineCount(product) ==
    IF CodesDiffer(product)
    THEN (IF BandQty(product, SmallBand) > 0 THEN 1 ELSE 0)
         + (IF BandQty(product, LargeBand) > 0 THEN 1 ELSE 0)
    ELSE IF BandQty(product, AllSizes) > 0 THEN 1 ELSE 0

\* The position in output_lines of the first line of the i-th record.
RECURSIVE FirstLineOf(_)
FirstLineOf(i) ==
    IF i = 1 THEN 1 ELSE FirstLineOf(i - 1) + SpecLineCount(products[i - 1])

\* The lines of the i-th record, when output_lines has one run per record.
LinesOf(i) ==
    SubSeq(output_lines, FirstLineOf(i), FirstLineOf(i + 1) - 1)

OneRunPerRecord ==
    Len(output_lines) = FirstLineOf(Len(products) + 1) - 1

SplitInTwo(product) ==
    /\ CodesDiffer(product)
    /\ BandQty(product, SmallBand) > 0
    /\ BandQty(product, LargeBand) > 0

\* What C1 says of the two lines but for their rendered boxes.
IsSplitPair(product, lines) ==
    /\ Len(lines) = 2
    /\ lines[1].insole_category = InsoleLe24
    /\ lines[2].insole_category = InsoleGt24
    /\ lines[1].hs_code = product.hs_code_le24
    /\ lines[2].hs_code = product.hs_code_gt24
    /\ lines[1].article = product.article
    /\ lines[2].article = product.article
    /\ lines[1].quantity = BandQty(product, SmallBand)
    /\ lines[2].quantity = BandQty(product, LargeBand)
    /\ lines[1].quantity + lines[2].quantity = BandQty(product, AllSizes)
    /\ lines[1].original_boxes = product.boxes
    /\ lines[2].original_boxes = product.boxes

\* C1 (as stated): a container record with differing tariff codes and positive
\* quantities in both bands yields exactly two lines, le24 then gt24, whose
\* quantities sum to the record's total, both with original_boxes equal to
\* the declared box count, and exactly one of them (the le24 line) has a
\* nonzero rendered boxes value.
C1_ExactlyOneNonzeroBoxes ==
    (Processed /\ mode = "container") =>
        /\ OneRunPerRecord
        /\ \A i \in 1..Len(products) :
              SplitInTwo(products[i]) =>
                  /\ IsSplitPair(products[i], LinesOf(i))
                  /\ LinesOf(i)[1].boxes # 0
                  /\ LinesOf(i)[2].boxes = 0

\* C1 (amended): ... the le24 line's rendered boxes equals the declared box
\* count and the gt24 line's is 0, so exactly one of them (the le24 line) is
\* nonzero whenever the declared box count is nonzero.
C1_SplitPair ==
    (Processed /\ mode = "container") =>
        /\ OneRunPerRecord
        /\ \A i \in 1..Len(products) :
              SplitInTwo(products[i]) =>
                  /\ IsSplitPair(products[i], LinesOf(i))
                  /\ LinesOf(i)[1].boxes = products[i].boxes
                  /\ LinesOf(i)[2].boxes = 0

C1_Witness ==
    /\ Processed /\ mode = "container"
    /\ Len(products) = 1
    /\ SplitInTwo(products[1])
    /\ DOMAIN products[1].qty_by_size = { 35, 37, 38, 42 }
    /\ products[1].boxes = 2
    /\ Len(output_lines) = 2
    /\ output_lines[1].boxes = 2
    /\ output_lines[2].boxes = 0
    /\ output_lines[2].original_boxes = 2

\* C2: a container record whose two tariff codes are equal and whose total
\* quantity is positive yields exactly one line, whose quantity is the sum of
\* all size quantities and whose tariff code is the shared code.
C2_SingleLine ==
    (Processed /\ mode = "container") =>
        /\ OneRunPerRecord
        /\ \A i \in 1..Len(products) :
              (~CodesDiffer(products[i]) /\ BandQty(products[i], AllSizes) > 0) =>
                  /\ Len(LinesOf(i)) = 1
                  /\ LinesOf(i)[1].quantity = BandQty(products[i], AllSizes)
                  /\ LinesOf(i)[1].hs_code = products[i].hs_code_le24
                  /\ LinesOf(i)[1].hs_code = products[i].hs_code_gt24
                  /\ LinesOf(i)[1].article = products[i].article

C2_Witness ==
    /\ Processed /\ mode = "container"
    /\ Len(products) = 1
    /\ ~CodesDiffer(products[1])
    /\ DOMAIN products[1].qty_by_size = { 35, 37, 38, 42 }
    /\ Len(output_lines) = 1
    /\ output_lines[1].quantity = BandQty(products[1], AllSizes)
    /\ output_lines[1].quantity > 4

\* The continuation rule of the specification: (a) same article as the
\* predecessor, (b) own label indicates more than 24cm, (c) own rendered boxes
\* is 0, (d) the predecessor's label indicates up to 24cm.
SpecContinuation(lines, i) ==
    /\ i > 1
    /\ lines[i].article = lines[i - 1].article
    /\ StrContains(lines[i].insole_category, Bolee24)
    /\ lines[i].boxes = 0
    /\ StrContains(lines[i - 1].insole_category, Do24)

Documents == { invoice, specification, packing_list }

\* C3: in every renderer, in the row-building pass and in the merging pass, a
\* line is treated as a continuation if and only if it has a predecessor and
\* conditions (a)-(d) all hold.
C3_ContinuationRule ==
    \A doc \in Documents :
        doc.generated =>
            /\ Len(doc.rows) = Len(output_lines)
            /\ Len(doc.merged) = Len(output_lines)
            /\ \A i \in 1..Len(output_lines) :
                  /\ doc.rows[i].is_continuation
                        = SpecContinuation(output_lines, i)
                  /\ doc.merged[i] = SpecContinuation(output_lines, i)

\* le24, its gt24 continuation, then a gt24 line of the same article that is
\* no continuation because its predecessor is a gt24 line.
C3_Witness ==
    /\ pc = "done"
    /\ Len(output_lines) = 3
    /\ \A doc \in Documents :
          /\ ~doc.rows[1].is_continuation
          /\ doc.rows[2].is_continuation /\ doc.merged[2]
          /\ ~doc.rows[3].is_continuation /\ ~doc.merged[3]
    /\ output_lines[3].article = output_lines[2].article
    /\ output_lines[3].insole_category = InsoleGt24
    /\ output_lines[3].boxes = 0

RECURSIVE BoxesCountedOnce(_, _)
BoxesCountedOnce(lines, i) ==
    IF i = 0 THEN 0
    ELSE BoxesCountedOnce(lines, i - 1)
         + (IF SpecContinuation(lines, i) THEN 0 ELSE lines[i].boxes)

\* C4: the total of boxes of a document counts a continuation pair once: the
\* first line adds its rendered boxes and the continuation adds 0 although
\* its original_boxes is not 0 (a split record with 2 boxes totals 2, not 4).
C4_PairCountedOnce ==
    \A doc \in Documents :
        doc.generated =>
            /\ doc.total_boxes = BoxesCountedOnce(output_lines, Len(output_lines))
            /\ (Len(products) = 1 /\ SplitInTwo(products[1]))
                  => doc.total_boxes = products[1].boxes

C4_Witness ==
    /\ pc = "done"
    /\ Len(products) = 1
    /\ SplitInTwo(products[1])
    /\ products[1].boxes = 2
    /\ output_lines[2].original_boxes = 2
    /\ \A doc \in Documents :
          doc.rows[2].is_continuation /\ doc.total_boxes = 2

C6_AmountRounded ==
    Processed =>
        \A i \in 1..Len(output_lines) :
            output_lines[i].amount
                = Round2(output_lines[i].price * output_lines[i].quantity, 1)

\* C7: every OutputLine has quantity > 0, and a raw record of either variant
\* whose total quantity is 0 produces no OutputLine.
C7_PositiveQuantity ==
    Processed =>
        /\ \A i \in 1..Len(output_lines) : output_lines[i].quantity > 0
        /\ mode = "container" =>
              /\ OneRunPerRecord
              /\ \A i \in 1..Len(products) :
                    BandQty(products[i], DOMAIN products[i].qty_by_size) = 0
                        => LinesOf(i) = << >>
        /\ mode = "shipment" =>
              Len(output_lines) = Cardinality(
                  { i \in 1..Len(shipment_lines) :
                      shipment_lines[i].halfpairs_loaded > 0 })

\* C8: with differing tariff codes the le24 line is emitted if and only if the
\* quantity over 35..37 is positive and the gt24 line if and only if the
\* quantity over 38..42 is positive; no line has quantity 0 and a record
\* yields at most two lines.
C8_CategoryOmitted ==
    (Processed /\ mode = "container") =>
        /\ OneRunPerRecord
        /\ \A i \in 1..Len(products) :
              CodesDiffer(products[i]) =>
                  LET lines == LinesOf(i)
                  IN  /\ Len(lines) <= 2
                      /\ (\E k \in 1..Len(lines) :
                             lines[k].insole_category = InsoleLe24)
                           <=> BandQty(products[i], SmallBand) > 0
                      /\ (\E k \in 1..Len(lines) :
                             lines[k].insole_category = InsoleGt24)
                           <=> BandQty(products[i], LargeBand) > 0
                      /\ \A k \in 1..Len(lines) :
                            /\ lines[k].quantity > 0
                            /\ lines[k].insole_category
                                  \in { InsoleLe24, InsoleGt24 }

\* Only size 42 has a quantity: the gt24 line alone.
C8_Witness ==
    /\ Processed /\ mode = "container"
    /\ Len(products) = 1
    /\ CodesDiffer(products[1])
    /\ DOMAIN products[1].qty_by_size = { 42 }
    /\ Len(output_lines) = 1
    /\ output_lines[1].insole_category = InsoleGt24
    /\ output_lines[1].quantity = products[1].qty_by_size[42]

\* C9: for every article a, every packaging suffix x (any case, with or
\* without whitespace before it) and every list of sizes,
\* get_km_codes(a + x, sizes) returns what get_km_codes(a, sizes) returns.
C9_SuffixRoundTrip ==
    km_query.called =>
        \A a \in BaseArticles, x \in SuffixForms :
            km_query.article = a \o x =>
                km_query.result = get_km_codes(km_index, a, km_query.sizes)

\* The rows of the reference file that _load indexes.
IndexedRows ==
    { i \in 1..Len(km_file.rows) :
        /\ ~IsNone(_extract_article(km_file.rows[i].nomenclature))
        /\ ~IsNone(km_file.rows[i].km)
        /\ ~IsNone(km_file.rows[i].size) }

\* C10: every article of an index key equals its own normalization, and every
\* indexed code is returned by get_km_codes for the article extracted from
\* its row and its size.
C10_KeysNormalized ==
    km_state = "loaded" =>
        /\ \A key \in DOMAIN km_index : key[1] = _normalize_article(key[1])
        /\ \A i \in IndexedRows :
              LET row == km_file.rows[i]
                  codes == get_km_codes(km_index,
                              _extract_article(row.nomenclature)[1],
                              << row.size[1] >>)
              IN  \E k \in 1..Len(codes) : codes[k] = row.km[1]

\* The codes of the rows from the i-th on that _load indexes under the key
\* (article, size), in the order of the dataset.
RECURSIVE CodesIndexedUnder(_, _, _)
CodesIndexedUnder(i, article, size) ==
    IF i > Len(km_file.rows) THEN << >>
    ELSE (IF /\ km_file.rows[i].size = Some(size)
             /\ ~IsNone(km_file.rows[i].km)
             /\ _extract_article(km_file.rows[i].nomenclature) = Some(article)
          THEN << km_file.rows[i].km[1] >>
          ELSE << >>)
         \o CodesIndexedUnder(i + 1, article, size)

RECURSIVE ConcatenatedCodes(_, _)
ConcatenatedCodes(article, sizes) ==
    IF sizes = << >> THEN << >>
    ELSE CodesIndexedUnder(1, article, Head(sizes))
         \o ConcatenatedCodes(article, Tail(sizes))

\* C11: get_km_codes(article, sizes) returns the concatenation, over the sizes
\* in the order requested, of the codes of the rows indexed under
\* (normalized article, size), each size's codes in dataset order with
\* duplicates kept; a size without entry contributes nothing.
C11_Concatenation ==
    km_query.called =>
        km_query.result
            = ConcatenatedCodes(_normalize_article(km_query.article),
                                km_query.sizes)

\* Sizes asked as [38, 35] of a dataset holding size 35 before size 38.
C11_Witness ==
    /\ km_query.called
    /\ km_query.sizes = << 38, 35 >>
    /\ Len(km_file.rows) = 2
    /\ km_file.rows[1] = KmRow(NomG1, Some(35), Some("K1"))
    /\ km_file.rows[2] = KmRow(NomG1, Some(38), Some("K3"))
    /\ km_query.result = << "K3", "K1" >>

\* The sizes the specification gives for a category label.
SpecCategorySizes(label) ==
    IF StrContains(label, Do24) THEN << 35, 36, 37 >>
    ELSE IF StrContains(label, Bolee24) THEN << 38, 39, 40, 41 >>
    ELSE << 35, 36, 37, 38, 39, 40, 41 >>

\* C12: get_km_codes_for_category(article, label) equals get_km_codes(article,
\* S) with S = [35,36,37] for a label of the band up to 24cm, [38,39,40,41]
\* for the band above 24cm, and [35..41] for any other label.
C12_CategorySizes ==
    (km_query.called /\ ~IsNone(km_query.insole_category)) =>
        km_query.result
            = get_km_codes(km_index, km_query.article,
                           SpecCategorySizes(km_query.insole_category[1]))

\* A label of neither band returns the codes of sizes 35 and 38.
C12_Witness ==
    /\ km_query.called
    /\ km_query.insole_category = Some(InsoleAll)
    /\ km_query.result = << "K1", "K3" >>

\* Two OutputLines equal in every field but the list of marking codes.
SameButCodes(a, b) ==
    [ a EXCEPT !.kiz_codes = << >> ] = [ b EXCEPT !.kiz_codes = << >> ]

\* C13: once the OutputLines are constructed no step changes any of their
\* fields but enrichment assigning kiz_codes: enrichment keeps quantity,
\* net_weight, gross_weight, boxes, original_boxes, price and amount, and a
\* generator leaves every field of every line as it was.
C13_Frame ==
    [][ Processed =>
          /\ Len(output_lines') = Len(output_lines)
          /\ \A i \in 1..Len(output_lines) :
                SameButCodes(output_lines[i], output_lines'[i])
          /\ output_lines' # output_lines
                => (pc = "km_loaded" /\ pc' = "enriched")
          /\ (\/ invoice' # invoice
              \/ specification' # specification
              \/ packing_list' # packing_list)
                => output_lines' = output_lines ]_vars

\* An enriched continuation line, merged by the three generators, with its
\* boxes and original_boxes as constructed.
C13_Witness ==
    /\ pc = "done"
    /\ \E i \in 1..Len(output_lines) :
          /\ output_lines[i].kiz_codes = << "K3" >>
          /\ output_lines[i].boxes = 0
          /\ output_lines[i].original_boxes = 2
          /\ invoice.merged[i] /\ specification.merged[i]
          /\ packing_list.merged[i]

Enriched == pc \in { "enriched", "invoice", "specification", "done" }
              /\ km_state = "loaded"

\* What the query of the i-th line returns.
CodesFor(i) ==
    get_km_codes(km_index, output_lines[i].article,
                 SpecCategorySizes(output_lines[i].insole_category))

\* C14: enrichment gives each line the list get_km_codes_for_category returns
\* for its article and label when that list is not empty and counts the
\* line; a line with an empty result keeps an empty list; the count returned
\* is the number of lines with a non-empty result.
C14_Enrichment ==
    Enriched =>
        /\ \A i \in 1..Len(output_lines) :
              output_lines[i].kiz_codes = CodesFor(i)
        /\ enriched_count
              = Cardinality({ i \in 1..Len(output_lines) : CodesFor(i) # << >> })

\* One line with codes and one without.
C14_Witness ==
    /\ Enriched
    /\ Len(output_lines) = 2
    /\ enriched_count = 1
    /\ \E i, j \in 1..2 :
          /\ output_lines[i].kiz_codes # << >>
          /\ output_lines[j].kiz_codes = << >>
          /\ CodesFor(j) = << >>

AllGenerated == \A doc \in Documents : doc.generated

\* C15: when building the index of marking codes fails the run still
\* generates the three documents, and every OutputLine the generators are
\* given has an empty list of marking codes.
C15_LoadFailure ==
    /\ [](km_state = "failed" =>
            /\ \A i \in 1..Len(output_lines) : output_lines[i].kiz_codes = << >>
            /\ \A doc \in Documents :
                  doc.generated => Len(doc.rows) = Len(output_lines))
    /\ (km_state = "failed") ~> (pc = "done" /\ AllGenerated)

\* The load failed on a file whose first row would have given codes to a line.
C15_Witness ==
    /\ km_state = "failed"
    /\ pc = "done"
    /\ AllGenerated
    /\ km_file.rows # << >>
    /\ \E i \in 1..Len(output_lines) :
          /\ output_lines[i].article = ArticleG1
          /\ output_lines[i].insole_category = InsoleLe24
          /\ output_lines[i].kiz_codes = << >>
          /\ invoice.rows[i].article = Some(ArticleG1)

\* C16: building the index from a dataset of fewer than 4 columns raises to
\* the caller, and no loader, hence no partly built index, answers queries.
C16_TooFewColumns ==
    (km_file.columns < 4 /\ pc = "km_ready") =>
        /\ km_state = "failed"
        /\ km_index = EmptyIndex
        /\ ~km_query.called

\* A dataset of 3 columns whose row could have been indexed.
C16_Witness ==
    /\ pc = "km_ready"
    /\ km_file.columns = 3
    /\ km_file.rows = << KmRow(NomG1, Some(35), Some("K1")) >>
    /\ km_state = "failed"
    /\ km_index = EmptyIndex

\* C17: ShipmentProcessor.process emits one OutputLine per ShipmentLine, in
\* the order of the input, labelled "длина стельки до 24см" whatever the
\* size, with the row's count of loaded half-pairs as quantity; rows are
\* neither split nor merged.
C17_OneLinePerRow ==
    (Processed /\ mode = "shipment") =>
        /\ Len(output_lines) = Len(shipment_lines)
        /\ \A i \in 1..Len(shipment_lines) :
              /\ output_lines[i].article = shipment_lines[i].article
              /\ output_lines[i].hs_code = shipment_lines[i].hs_code
              /\ output_lines[i].box_group = shipment_lines[i].box_group
              /\ output_lines[i].insole_category = InsoleLe24
              /\ output_lines[i].quantity = shipment_lines[i].halfpairs_loaded

\* Two rows of one article, the second of size 38, kept apart and in order.
C17_Witness ==
    /\ Processed /\ mode = "shipment"
    /\ Len(shipment_lines) = 2
    /\ shipment_lines[1].article = shipment_lines[2].article
    /\ shipment_lines[1].halfpairs_loaded = 2
    /\ shipment_lines[2].halfpairs_loaded = 1
    /\ shipment_lines[2].size = 38
    /\ Len(output_lines) = 2
    /\ output_lines[1].quantity = 2
    /\ output_lines[2].quantity = 1
    /\ output_lines[2].insole_category = InsoleLe24

TotalQty(product) ==
    BandQty(product, DOMAIN product.qty_by_size)

\* r (a count of 1/10000) is num/den rounded to 3 decimals: a multiple of
\* 0.001 at most 0.0005 away, the even one when two are.
IsRoundedTo3(r, num, den) ==
    LET diff == IF r * den >= num THEN r * den - num ELSE num - r * den
    IN  /\ r % 10 = 0
        /\ 2 * diff <= 10 * den
        /\ 2 * diff = 10 * den => (r \div 10) % 2 = 0

\* C18: the gross weight of a container line is gross_weight_per_box x boxes
\* x quantity of the line / total quantity of the record, rounded to 3
\* decimals; for a record of total quantity 0 it is 0 and nothing is divided
\* by zero.
C18_GrossWeight ==
    (Processed /\ mode = "container") =>
        /\ OneRunPerRecord
        /\ \A i \in 1..Len(products) :
              LET product == products[i]
                  lines == LinesOf(i)
              IN  IF TotalQty(product) > 0
                  THEN \A k \in 1..Len(lines) :
                          IsRoundedTo3(lines[k].gross_weight,
                                       product.gross_weight_per_box
                                         * product.boxes * lines[k].quantity,
                                       TotalQty(product))
                  ELSE \A category \in { "le24", "gt24", "all" },
                          quantity \in 0..MaxQty :
                          _create_output_line(product, category, quantity)
                              .gross_weight = 0

\* 0.001 x 1 box x 1 of 2 pairs = 0.0005, a tie, rounded to 0.000.
C18_Witness ==
    /\ Processed /\ mode = "container"
    /\ Len(products) = 1
    /\ products[1].gross_weight_per_box = 10
    /\ products[1].boxes = 1
    /\ TotalQty(products[1]) = 2
    /\ Len(output_lines) = 2
    /\ output_lines[1].quantity = 1
    /\ output_lines[1].gross_weight = 0
    /\ output_lines[2].gross_weight = 0

\* C19: the rendered boxes of a container line is the declared box count of
\* its record for the category le24 or all and 0 for the category gt24;
\* original_boxes is the declared box count for every category.
C19_RenderedBoxes ==
    (Processed /\ mode = "container") =>
        /\ OneRunPerRecord
        /\ \A i \in 1..Len(products) :
              LET lines == LinesOf(i)
              IN  \A k \in 1..Len(lines) :
                     /\ lines[k].original_boxes = products[i].boxes
                     /\ lines[k].boxes
                           = IF CodesDiffer(products[i])
                                /\ lines[k].insole_category = InsoleGt24
                             THEN 0
                             ELSE products[i].boxes

\* The single line of a record with one tariff code shows its 2 boxes.
C19_Witness ==
    /\ Processed /\ mode = "container"
    /\ Len(products) = 1
    /\ ~CodesDiffer(products[1])
    /\ products[1].boxes = 2
    /\ Len(output_lines) = 1
    /\ StrContains(output_lines[1].insole_category, InsoleAll)
    /\ output_lines[1].boxes = 2
    /\ output_lines[1].original_boxes = 2

\* The rows with an article and a code but an empty size cell: int(size)
\* raises on them.
RowsWithoutSize ==
    { i \in 1..Len(km_file.rows) :
        /\ ~IsNone(_extract_article(km_file.rows[i].nomenclature))
        /\ ~IsNone(km_file.rows[i].km)
        /\ IsNone(km_file.rows[i].size) }

RECURSIVE CountCodes(_, _)
CountCodes(index, keys) ==
    IF keys = { } THEN 0
    ELSE LET key == CHOOSE k \in keys : TRUE
         IN  Len(index[key]) + CountCodes(index, keys \ { key })

C21_FourOrMoreColumns ==
    pc = "km_ready" =>
        /\ km_file.columns < 4 => km_state = "failed"
        /\ (km_file.columns >= 4 /\ RowsWithoutSize = { })
              => km_state = "loaded"

\* C22: when the tariff code of one size category of a container record is
\* empty and the other is present, no OutputLine is emitted for the category
\* without code, and nothing is raised.
C22_AbsentCodeOmitted ==
    (Processed /\ mode = "container") =>
        /\ OneRunPerRecord
        /\ \A i \in 1..Len(products) :
              LET product == products[i]
                  lines == LinesOf(i)
              IN  /\ (product.hs_code_le24 = "" /\ product.hs_code_gt24 # "")
                        => \A k \in 1..Len(lines) :
                              lines[k].insole_category # InsoleLe24
                  /\ (product.hs_code_gt24 = "" /\ product.hs_code_le24 # "")
                        => \A k \in 1..Len(lines) :
                              lines[k].insole_category # InsoleGt24

\* The declared box counts of the first n records, those that produced no
\* OutputLine left out.
RECURSIVE DeclaredBoxes(_)
DeclaredBoxes(n) ==
    IF n = 0 THEN 0
    ELSE DeclaredBoxes(n - 1)
         + (IF LinesOf(n) # << >> THEN products[n].boxes ELSE 0)

\* C23: in container mode the box total of the totals row of each document is
\* the sum of the declared box counts of the records that produced at least
\* one OutputLine, a record with two tariff codes and quantities in the band
\* above 24cm only included.
C23_TotalIsDeclared ==
    \A doc \in Documents :
        (doc.generated /\ mode = "container") =>
            /\ OneRunPerRecord
            /\ doc.total_boxes = DeclaredBoxes(Len(products))

\* The sum of the values written into the box cells of the first n data rows
\* (a merged range holds its value in its upper cell).
RECURSIVE BoxCellsSum(_, _)
BoxCellsSum(cells, n) ==
    IF n = 0 THEN 0
    ELSE BoxCellsSum(cells, n - 1)
         + (IF IsNone(cells[n]) THEN 0 ELSE cells[n][1])

\* C24: in every document the box count of the totals row is the sum of the
\* box counts written into the box cells of the data rows, a merged
\* continuation cell counted once with the value it shows; also when the
\* pair is made of lines of two adjacent records of one article.
C24_TotalIsSumOfCells ==
    \A doc \in Documents :
        doc.generated =>
            doc.total_boxes = BoxCellsSum(doc.cells, Len(doc.cells))

\* The sum of the box counts of the distinct box groups of a shipment file:
\* one count for each row that opens a group among the first n rows.
RECURSIVE BoxGroupsSum(_, _)
BoxGroupsSum(df, n) ==
    IF n = 0 THEN 0
    ELSE BoxGroupsSum(df, n - 1)
         + (IF n \in box_group_starts(df) THEN df[n].korobok[1] ELSE 0)

\* C25: in shipment mode each box group contributes its box count exactly
\* once to a document's box total, whatever the number of rows of the group:
\* the total is the sum of the box counts of the distinct box groups.
C25_GroupCountedOnce ==
    \A doc \in Documents :
        (doc.generated /\ mode = "shipment") =>
            doc.total_boxes = BoxGroupsSum(shipment_file, Len(shipment_file))

\* The codes attached to the i-th line.
AttachedCodes(i) ==
    { output_lines[i].kiz_codes[k] : k \in 1..Len(output_lines[i].kiz_codes) }

\* C26: after enrichment each code of the index is attached to at most one
\* line: no code is in the lists of two different lines (two shipment rows or
\* two records of one article, say).
C26_CodeAttachedOnce ==
    Enriched =>
        \A i, j \in 1..Len(output_lines) :
            i # j => AttachedCodes(i) \cap AttachedCodes(j) = { }

\* The sizes of a record counted in the quantity of its line with the given
\* label: the band of the label, and every size of the record for a line of
\* all sizes.
CountedSizes(product, label) ==
    IF StrContains(label, Do24)
    THEN (DOMAIN product.qty_by_size) \cap Le24Sizes
    ELSE IF StrContains(label, Bolee24)
         THEN (DOMAIN product.qty_by_size) \cap Gt24Sizes
         ELSE DOMAIN product.qty_by_size

\* C27: for every line of a container run every size counted in its quantity
\* is among the sizes queried for its label, so a code indexed under the
\* line's article and a counted size is attached to the line (size 42 in the
\* band above 24cm and in a line of all sizes included).
C27_CountedSizesQueried ==
    (Enriched /\ mode = "container") =>
        /\ OneRunPerRecord
        /\ \A i \in 1..Len(products) :
              \A k \in 1..Len(LinesOf(i)) :
                 LET line == LinesOf(i)[k]
                 IN  \A size \in CountedSizes(products[i], line.insole_category) :
                        /\ size \in SeqRange(category_sizes(line.insole_category))
                        /\ SeqRange(get_km_codes(km_index, line.article, << size >>))
                              \subseteq SeqRange(line.kiz_codes)

\* C28: _normalize_article is idempotent: normalizing the normalized form of
\* any string gives the normalized form again, also for an article that ends
\* with several packaging suffixes in any order.
C28_NormalizeIdempotent ==
    km_query.called =>
        _normalize_article(_normalize_article(km_query.article))
            = _normalize_article(km_query.article)

\* C29: in each pass of each generator (the row-building loop and the
\* merging pass) a continuation line comes right after a line that is no
\* continuation: the first line is none, and no two adjacent lines are both
\* continuations.
C29_ContinuationAfterFirstLine ==
    \A doc \in Documents :
        doc.generated =>
            \A r \in 1..Len(doc.rows) :
                /\ doc.rows[r].is_continuation
                      => (r > 1 /\ ~doc.rows[r - 1].is_continuation)
                /\ doc.merged[r] => (r > 1 /\ ~doc.merged[r - 1])

\* All three documents hold a pair followed by a line of the same article,
\* of the band above 24cm and with no rendered boxes, that is no continuation.
C29_Witness ==
    /\ mode = "container"
    /\ Len(output_lines) = 3
    /\ output_lines[3].article = output_lines[2].article
    /\ StrContains(output_lines[3].insole_category, Bolee24)
    /\ output_lines[3].boxes = 0
    /\ \A doc \in Documents :
          /\ doc.generated
          /\ doc.rows[2].is_continuation /\ doc.merged[2]
          /\ ~doc.rows[3].is_continuation /\ ~doc.merged[3]

\* C30: for every container record split in two lines the rounded gross
\* weights of the two lines add up to gross_weight_per_box x declared boxes.
C30_GrossWeightConserved ==
    (Processed /\ mode = "container") =>
        /\ OneRunPerRecord
        /\ \A i \in 1..Len(products) :
              SplitInTwo(products[i]) =>
                  /\ Len(LinesOf(i)) = 2
                  /\ LinesOf(i)[1].gross_weight + LinesOf(i)[2].gross_weight
                        = products[i].gross_weight_per_box * products[i].boxes

=============================================================================
